---- MODULE Spec2Model ----
(***************************************************************************)
(* Model of udon's note store (notes.Store: GetNotes, Load, Save, Delete,  *)
(* Update) and of the confirm-gated session operations layered over it     *)
(* (checkDuplicateName, ConfirmSave, ConfirmClose, ConfirmUpdate,          *)
(* ConfirmDelete).                                                         *)
(*                                                                         *)
(* Strings are sequences of one-character strings, so that trimming and    *)
(* sanitization are computed character by character. The notes directory  *)
(* is a function from file names to [content, mtime]. Every os.WriteFile   *)
(* happens at a fresh instant of the clock; os.Rename keeps the file's     *)
(* modification time.                                                      *)
(*                                                                         *)
(* The operations whose names end in IO take the failures of the system    *)
(* calls they make (os.ReadDir, os.Open, os.Rename, os.ReadFile,           *)
(* os.WriteFile) as an argument. SearchNotes is modelled with              *)
(* strings.ToLower and strings.Contains computed on the characters. The    *)
(* terminal interface (tui.model: NewModel, Update) is the record tui; its *)
(* textarea is [focus, value].                                             *)
(***************************************************************************)
EXTENDS Integers, Sequences, FiniteSets, TLC

VARIABLES
    files,      \* the notes directory: file name -> [content, mtime]
    clock,      \* the time of the latest write
    pc,         \* "idle": no call in progress; "done": a call has returned
    call,       \* the operation that returned last, with its arguments
    result,     \* what it returned: [status, err]
    pre,        \* the directory as it was when that operation was called
    persisted,  \* history: raw titles saved and not since deleted, renamed or overwritten
    saved,      \* history: raw titles saved by Store.Save since the directory was empty
    tui         \* the model of the terminal interface, once it runs

vars == <<files, clock, pc, call, result, pre, persisted, saved, tui>>

\* The number of writes a behaviour may perform.
MaxClock == 2

----------------------------------------------------------------------------
\* Strings

\* unicode.IsSpace, restricted to the characters the inputs use
WhiteSpace == {" ", "\n", "\r", "\t"}

\* the character class of the regexp in sanitizeFilename
InvalidFilenameChars == {"<", ">", ":", "\"", "/", "\\", "|", "?", "*"}

MdExt == <<".", "m", "d">>

RECURSIVE TrimRightFunc(_)
\* strings.TrimRightFunc(s, unicode.IsSpace)
TrimRightFunc(s) ==
    IF s = <<>> THEN s
    ELSE IF s[Len(s)] \in WhiteSpace THEN TrimRightFunc(SubSeq(s, 1, Len(s) - 1))
    ELSE s

RECURSIVE TrimLeftSpace(_)
TrimLeftSpace(s) ==
    IF s = <<>> THEN s
    ELSE IF s[1] \in WhiteSpace THEN TrimLeftSpace(Tail(s))
    ELSE s

\* strings.TrimSpace
TrimSpace(s) == TrimLeftSpace(TrimRightFunc(s))

\* sanitizeFilename replaces invalid filename characters with underscores.
sanitizeFilename(name) ==
    [i \in 1..Len(name) |-> IF name[i] \in InvalidFilenameChars THEN "_" ELSE name[i]]

\* filepath.Ext: the suffix beginning at the final dot, empty if there is none
Ext(filename) ==
    LET dots == {i \in 1..Len(filename) : filename[i] = "."}
    IN  IF dots = {} THEN <<>>
        ELSE SubSeq(filename, CHOOSE i \in dots : \A j \in dots : j <= i, Len(filename))

\* strings.TrimSuffix
TrimSuffix(s, suffix) ==
    IF Len(s) >= Len(suffix) /\ SubSeq(s, Len(s) - Len(suffix) + 1, Len(s)) = suffix
    THEN SubSeq(s, 1, Len(s) - Len(suffix))
    ELSE s

----------------------------------------------------------------------------
\* Inputs

Titles ==
    { <<>>, <<" ">>, <<"a">>, <<" ", "a">>, <<"b">>,
      <<"a", "/", "b">>, <<"a", ":", "b">>, <<"a", "_", "b">> }

Contents ==
    { <<>>, <<"x">>, <<"x", " ", "\n">> }

\* *string arguments: nil or a pointer to a string
Nil == [isNil |-> TRUE, val |-> <<>>]
Some(v) == [isNil |-> FALSE, val |-> v]
OptTitles == {Nil} \cup {Some(t) : t \in Titles}
OptContents == {Nil} \cup {Some(c) : c \in Contents}

----------------------------------------------------------------------------
\* File system primitives

\* os.WriteFile at time now: creates or truncates the file
WriteFile(fs, now, path, data) ==
    [p \in (DOMAIN fs) \cup {path} |->
        IF p = path THEN [content |-> data, mtime |-> now] ELSE fs[p]]

\* os.Remove of an existing file
Remove(fs, path) == [p \in (DOMAIN fs) \ {path} |-> fs[p]]

\* a rename that copies: the file stays under oldPath too
Rename_Copy(fs, oldPath, newPath) ==
    [p \in (DOMAIN fs) \cup {newPath} |-> IF p = newPath THEN fs[oldPath] ELSE fs[p]]

\* os.Rename of an existing file: replaces newPath, keeps the modification time
Rename(fs, oldPath, newPath) ==
    IF oldPath = newPath THEN fs
    ELSE [p \in ((DOMAIN fs) \ {oldPath}) \cup {newPath} |->
            IF p = newPath THEN fs[oldPath] ELSE fs[p]]

----------------------------------------------------------------------------
\* Store

NoNote == [Title |-> <<>>, Content |-> <<>>, ModTime |-> 0]

\* Store.Load looking for the trimmed title as the file name
Load_Unsanitized(fs, title) ==
    LET filename == TrimSpace(title) \o MdExt
    IN  IF filename \notin DOMAIN fs
        THEN [err |-> "not exist", note |-> NoNote]
        ELSE [err |-> "nil",
              note |-> [Title |-> title,
                        Content |-> fs[filename].content,
                        ModTime |-> fs[filename].mtime]]

\* Store.Load
Load(fs, title) ==
    LET filename == sanitizeFilename(TrimSpace(title)) \o MdExt
    IN  IF filename \notin DOMAIN fs
        THEN [err |-> "not exist", note |-> NoNote]
        ELSE [err |-> "nil",
              note |-> [Title |-> title,
                        Content |-> fs[filename].content,
                        ModTime |-> fs[filename].mtime]]

\* Store.Save writing the content as given, trailing whitespace included
Save_Untrimmed(fs, clk, note) ==
    IF TrimSpace(note.Title) = <<>>
    THEN [fs |-> fs, clk |-> clk, err |-> "empty title"]
    ELSE LET filename == sanitizeFilename(TrimSpace(note.Title)) \o MdExt
         IN  [fs |-> WriteFile(fs, clk + 1, filename, note.Content),
              clk |-> clk + 1, err |-> "nil"]

\* Store.Save
Save(fs, clk, note) ==
    IF TrimSpace(note.Title) = <<>>
    THEN [fs |-> fs, clk |-> clk, err |-> "empty title"]
    ELSE LET filename == sanitizeFilename(TrimSpace(note.Title)) \o MdExt
             content == TrimRightFunc(note.Content)
         IN  [fs |-> WriteFile(fs, clk + 1, filename, content),
              clk |-> clk + 1, err |-> "nil"]

\* Store.Delete treating a missing file as already deleted
Delete_Silent(fs, noteName) ==
    IF TrimSpace(noteName) = <<>>
    THEN [fs |-> fs, err |-> "empty title"]
    ELSE LET filename == sanitizeFilename(TrimSpace(noteName)) \o MdExt
         IN  IF filename \notin DOMAIN fs
             THEN [fs |-> fs, err |-> "nil"]
             ELSE [fs |-> Remove(fs, filename), err |-> "nil"]

\* Store.Delete
Delete(fs, noteName) ==
    IF TrimSpace(noteName) = <<>>
    THEN [fs |-> fs, err |-> "empty title"]
    ELSE LET filename == sanitizeFilename(TrimSpace(noteName)) \o MdExt
         IN  IF filename \notin DOMAIN fs
             THEN [fs |-> fs, err |-> "not exist"]
             ELSE [fs |-> Remove(fs, filename), err |-> "nil"]

\* Store.Update, the content step writing even when the content is unchanged
UpdateContent_AlwaysWrite(fs, clk, path, updatedContent) ==
    IF updatedContent.isNil
    THEN [fs |-> fs, clk |-> clk, err |-> "nil"]
    ELSE IF path \notin DOMAIN fs
    THEN [fs |-> fs, clk |-> clk, err |-> "read"]
    ELSE [fs |-> WriteFile(fs, clk + 1, path, TrimRightFunc(updatedContent.val)),
          clk |-> clk + 1, err |-> "nil"]

\* Store.Update, the content step comparing and writing the content as given
UpdateContent_Untrimmed(fs, clk, path, updatedContent) ==
    IF updatedContent.isNil
    THEN [fs |-> fs, clk |-> clk, err |-> "nil"]
    ELSE IF path \notin DOMAIN fs
    THEN [fs |-> fs, clk |-> clk, err |-> "read"]
    ELSE IF updatedContent.val # fs[path].content
    THEN [fs |-> WriteFile(fs, clk + 1, path, updatedContent.val),
          clk |-> clk + 1, err |-> "nil"]
    ELSE [fs |-> fs, clk |-> clk, err |-> "nil"]

\* Store.Update: "Update the note content if new content is provided."
UpdateContent(fs, clk, path, updatedContent) ==
    IF updatedContent.isNil
    THEN [fs |-> fs, clk |-> clk, err |-> "nil"]
    ELSE IF path \notin DOMAIN fs
    THEN [fs |-> fs, clk |-> clk, err |-> "read"]
    ELSE
      LET oldContent == fs[path].content
          newContent == TrimRightFunc(updatedContent.val)
      IN  IF newContent # oldContent
          THEN [fs |-> WriteFile(fs, clk + 1, path, newContent),
                clk |-> clk + 1, err |-> "nil"]
          ELSE [fs |-> fs, clk |-> clk, err |-> "nil"]

\* Store.Update: "Rename the note file if a new, non-empty title is provided.",
\* then the content step on the resulting path
UpdateFile(fs, clk, oldTitle, updatedTitle, updatedContent) ==
    LET oldPath == sanitizeFilename(TrimSpace(oldTitle)) \o MdExt
        doRename == ~updatedTitle.isNil /\ TrimSpace(updatedTitle.val) # <<>>
        newPath == sanitizeFilename(TrimSpace(updatedTitle.val)) \o MdExt
    IN  IF doRename /\ oldPath \notin DOMAIN fs
        THEN [fs |-> fs, clk |-> clk, err |-> "rename"]
        ELSE IF doRename
        THEN UpdateContent(Rename(fs, oldPath, newPath), clk, newPath, updatedContent)
        ELSE UpdateContent(fs, clk, oldPath, updatedContent)

\* Store.Update rejecting a call that has nothing to update
Update_ErrOnNothing(fs, clk, oldTitle, updatedTitle, updatedContent) ==
    IF TrimSpace(oldTitle) = <<>>
    THEN [fs |-> fs, clk |-> clk, err |-> "empty title"]
    ELSE IF updatedTitle.isNil /\ updatedContent.isNil
    THEN [fs |-> fs, clk |-> clk, err |-> "nothing to update"]
    ELSE UpdateFile(fs, clk, oldTitle, updatedTitle, updatedContent)

\* Store.Update
Update(fs, clk, oldTitle, updatedTitle, updatedContent) ==
    IF TrimSpace(oldTitle) = <<>>
    THEN [fs |-> fs, clk |-> clk, err |-> "empty title"]
    ELSE IF updatedTitle.isNil /\ updatedContent.isNil
    THEN [fs |-> fs, clk |-> clk, err |-> "nil"]
    ELSE UpdateFile(fs, clk, oldTitle, updatedTitle, updatedContent)

\* What the operating system does to the system calls of one operation: fails
\* names the call that fails ("none": every call succeeds); an os.WriteFile that
\* fails at "open" leaves the file as it was, one that fails at "write" has
\* truncated the file and written only the first `written` bytes of the data.
NoFault == [fails |-> "none", written |-> 0]
Faults ==
    { NoFault,
      [fails |-> "rename", written |-> 0],
      [fails |-> "read", written |-> 0],
      [fails |-> "open", written |-> 0],
      [fails |-> "write", written |-> 0],
      [fails |-> "write", written |-> 1] }

\* the first n characters of data
Prefix(data, n) == SubSeq(data, 1, IF n < Len(data) THEN n ELSE Len(data))

\* Store.Update, the content step when the operating system may fail a call
UpdateContentIO(fs, clk, path, updatedContent, fault) ==
    IF updatedContent.isNil
    THEN [fs |-> fs, clk |-> clk, err |-> "nil"]
    ELSE IF path \notin DOMAIN fs \/ fault.fails = "read"
    THEN [fs |-> fs, clk |-> clk, err |-> "read"]
    ELSE
      LET oldContent == fs[path].content
          newContent == TrimRightFunc(updatedContent.val)
      IN  IF newContent # oldContent
          THEN IF fault.fails = "open"
               THEN [fs |-> fs, clk |-> clk, err |-> "write"]
               ELSE IF fault.fails = "write"
               THEN [fs |-> WriteFile(fs, clk + 1, path, Prefix(newContent, fault.written)),
                     clk |-> clk + 1, err |-> "write"]
               ELSE [fs |-> WriteFile(fs, clk + 1, path, newContent),
                     clk |-> clk + 1, err |-> "nil"]
          ELSE [fs |-> fs, clk |-> clk, err |-> "nil"]

\* Store.Update undoing the rename when the content step fails
UpdateFileIO_Rollback(fs, clk, oldTitle, updatedTitle, updatedContent, fault) ==
    LET oldPath == sanitizeFilename(TrimSpace(oldTitle)) \o MdExt
        doRename == ~updatedTitle.isNil /\ TrimSpace(updatedTitle.val) # <<>>
        newPath == sanitizeFilename(TrimSpace(updatedTitle.val)) \o MdExt
    IN  IF doRename /\ (oldPath \notin DOMAIN fs \/ fault.fails = "rename")
        THEN [fs |-> fs, clk |-> clk, err |-> "rename"]
        ELSE IF doRename
        THEN LET r == UpdateContentIO(Rename(fs, oldPath, newPath), clk, newPath,
                                      updatedContent, fault)
             IN  IF r.err # "nil" THEN [fs |-> fs, clk |-> clk, err |-> r.err] ELSE r
        ELSE UpdateContentIO(fs, clk, oldPath, updatedContent, fault)

\* Store.Update, the rename and content steps when the operating system may
\* fail a call
UpdateFileIO(fs, clk, oldTitle, updatedTitle, updatedContent, fault) ==
    LET oldPath == sanitizeFilename(TrimSpace(oldTitle)) \o MdExt
        doRename == ~updatedTitle.isNil /\ TrimSpace(updatedTitle.val) # <<>>
        newPath == sanitizeFilename(TrimSpace(updatedTitle.val)) \o MdExt
    IN  IF doRename /\ (oldPath \notin DOMAIN fs \/ fault.fails = "rename")
        THEN [fs |-> fs, clk |-> clk, err |-> "rename"]
        ELSE IF doRename
        THEN UpdateContentIO(Rename(fs, oldPath, newPath), clk, newPath,
                             updatedContent, fault)
        ELSE UpdateContentIO(fs, clk, oldPath, updatedContent, fault)

\* Store.Update when the operating system may fail a call
UpdateIO(fs, clk, oldTitle, updatedTitle, updatedContent, fault) ==
    IF TrimSpace(oldTitle) = <<>>
    THEN [fs |-> fs, clk |-> clk, err |-> "empty title"]
    ELSE IF updatedTitle.isNil /\ updatedContent.isNil
    THEN [fs |-> fs, clk |-> clk, err |-> "nil"]
    ELSE UpdateFileIO(fs, clk, oldTitle, updatedTitle, updatedContent, fault)

\* bufio.ScanLines drops one trailing carriage return of a line
DropCR(line) ==
    IF line # <<>> /\ line[Len(line)] = "\r"
    THEN SubSeq(line, 1, Len(line) - 1)
    ELSE line

RECURSIVE ScanLines(_)
\* the tokens of bufio.Scanner over the content of a file
ScanLines(s) ==
    IF s = <<>> THEN <<>>
    ELSE LET nl == {i \in 1..Len(s) : s[i] = "\n"}
         IN  IF nl = {} THEN <<DropCR(s)>>
             ELSE LET i == CHOOSE k \in nl : \A j \in nl : k <= j
                  IN  <<DropCR(SubSeq(s, 1, i - 1))>> \o ScanLines(SubSeq(s, i + 1, Len(s)))

RECURSIVE Join(_, _)
\* strings.Join
Join(elems, sep) ==
    IF elems = <<>> THEN <<>>
    ELSE IF Len(elems) = 1 THEN elems[1]
    ELSE elems[1] \o sep \o Join(Tail(elems), sep)

RECURSIVE SortByModTime_Ascending(_)
\* the sort with the comparison reversed: oldest first
SortByModTime_Ascending(notes) ==
    IF notes = {} THEN <<>>
    ELSE LET first == CHOOSE n \in notes : \A m \in notes : n.ModTime <= m.ModTime
         IN  <<first>> \o SortByModTime_Ascending(notes \ {first})

RECURSIVE SortByModTime(_)
\* sort.Slice with less(i, j) = notes[i].ModTime.After(notes[j].ModTime)
SortByModTime(notes) ==
    IF notes = {} THEN <<>>
    ELSE LET first == CHOOSE n \in notes : \A m \in notes : m.ModTime <= n.ModTime
         IN  <<first>> \o SortByModTime(notes \ {first})

\* Store.GetNotes stripping the extension of the earlier file format
GetNotes_TxtSuffix(fs) ==
    LET entries == {filename \in DOMAIN fs : Ext(filename) = MdExt}
    IN  SortByModTime({ [Title |-> TrimSuffix(filename, <<".", "t", "x", "t">>),
                         Content |-> Join(ScanLines(fs[filename].content), <<"\n">>),
                         ModTime |-> fs[filename].mtime] : filename \in entries })

\* Store.GetNotes
GetNotes(fs) ==
    LET entries == {filename \in DOMAIN fs : Ext(filename) = MdExt}
    IN  SortByModTime({ [Title |-> TrimSuffix(filename, MdExt),
                         Content |-> Join(ScanLines(fs[filename].content), <<"\n">>),
                         ModTime |-> fs[filename].mtime] : filename \in entries })

\* Store.GetNotes failing when a file cannot be opened or its metadata read
GetNotesIO_FailOnUnreadable(dir, readable) ==
    LET entries == {filename \in DOMAIN dir :
                       ~dir[filename].isDir /\ Ext(filename) = MdExt}
    IN  IF ~readable \/ \E filename \in entries :
                            ~dir[filename].canOpen \/ ~dir[filename].canStat
        THEN [notes |-> <<>>, err |-> "readdir"]
        ELSE [notes |-> SortByModTime({ [Title |-> TrimSuffix(filename, MdExt),
                                         Content |-> Join(ScanLines(dir[filename].content), <<"\n">>),
                                         ModTime |-> dir[filename].mtime] : filename \in entries }),
              err |-> "nil"]

\* Store.GetNotes over a directory that holds any kind of entry: dir maps a name
\* to [isDir, canOpen, canStat, content, mtime]; readable is whether os.ReadDir
\* succeeds; canOpen whether os.Open does, canStat whether entry.Info() does.
GetNotesIO(dir, readable) ==
    IF ~readable
    THEN [notes |-> <<>>, err |-> "readdir"]
    ELSE LET entries == {filename \in DOMAIN dir :
                            /\ ~dir[filename].isDir
                            /\ Ext(filename) = MdExt
                            /\ dir[filename].canOpen
                            /\ dir[filename].canStat}
         IN  [notes |-> SortByModTime({ [Title |-> TrimSuffix(filename, MdExt),
                                         Content |-> Join(ScanLines(dir[filename].content), <<"\n">>),
                                         ModTime |-> dir[filename].mtime] : filename \in entries }),
              err |-> "nil"]

----------------------------------------------------------------------------
\* Session operations

\* the lower case of the upper-case letters the inputs use
LowerCase == [c \in {"A", "B", "X", "Y"} |->
                 CASE c = "A" -> "a" [] c = "B" -> "b" [] c = "X" -> "x" [] c = "Y" -> "y"]

\* a conversion that keeps the case
ToLower_KeepCase(s) == s

\* strings.ToLower
ToLower(s) ==
    [i \in 1..Len(s) |-> IF s[i] \in DOMAIN LowerCase THEN LowerCase[s[i]] ELSE s[i]]

\* strings.Contains
Contains(s, substr) ==
    \E i \in 0..(Len(s) - Len(substr)) : SubSeq(s, i + 1, i + Len(substr)) = substr

RECURSIVE SearchResults(_, _)
\* the loop of SearchNotes: appends the notes that match, in order
SearchResults(notes, query) ==
    IF notes = <<>> THEN <<>>
    ELSE LET note == notes[1]
             rest == SearchResults(Tail(notes), query)
         IN  IF \/ Contains(ToLower(note.Title), ToLower(query))
                \/ Contains(ToLower(note.Content), ToLower(query))
             THEN <<note>> \o rest
             ELSE rest

\* SearchNotes
SearchNotes(fs, query) == [notes |-> SearchResults(GetNotes(fs), query), err |-> "nil"]

\* checkDuplicateName comparing the file names the titles resolve to
checkDuplicateName_ByFilename(fs, title) ==
    LET notes == GetNotes(fs)
    IN  IF \E i \in 1..Len(notes) :
              sanitizeFilename(TrimSpace(notes[i].Title)) = sanitizeFilename(TrimSpace(title))
        THEN "duplicate" ELSE "okay"

\* checkDuplicateName
checkDuplicateName(fs, title) ==
    LET notes == GetNotes(fs)
    IN  IF \E i \in 1..Len(notes) : notes[i].Title = title
        THEN "duplicate" ELSE "okay"

\* ConfirmSave
ConfirmSave(fs, clk, note, confirm) ==
    IF confirm
    THEN IF checkDuplicateName(fs, note.Title) = "duplicate"
         THEN [fs |-> fs, clk |-> clk, status |-> "note exists", err |-> "nil"]
         ELSE LET r == Save(fs, clk, note)
              IN  IF r.err # "nil"
                  THEN [fs |-> r.fs, clk |-> r.clk, status |-> "", err |-> r.err]
                  ELSE [fs |-> r.fs, clk |-> r.clk, status |-> "saved", err |-> "nil"]
    ELSE [fs |-> fs, clk |-> clk, status |-> "not saved", err |-> "nil"]

\* ConfirmClose saving whatever confirm says
ConfirmClose_IgnoreConfirm(fs, clk, note, confirm) ==
    LET r == Save(fs, clk, note)
    IN  IF r.err # "nil"
        THEN [fs |-> r.fs, clk |-> r.clk, status |-> "", err |-> r.err]
        ELSE [fs |-> r.fs, clk |-> r.clk, status |-> "saved", err |-> "nil"]

\* ConfirmClose refusing, like ConfirmSave, the title of a listed note
ConfirmClose_DuplicateCheck(fs, clk, note, confirm) ==
    IF confirm
    THEN IF checkDuplicateName(fs, note.Title) = "duplicate"
         THEN [fs |-> fs, clk |-> clk, status |-> "note exists", err |-> "nil"]
         ELSE LET r == Save(fs, clk, note)
              IN  IF r.err # "nil"
                  THEN [fs |-> r.fs, clk |-> r.clk, status |-> "", err |-> r.err]
                  ELSE [fs |-> r.fs, clk |-> r.clk, status |-> "saved", err |-> "nil"]
    ELSE [fs |-> fs, clk |-> clk, status |-> "unsaved", err |-> "nil"]

\* ConfirmClose
ConfirmClose(fs, clk, note, confirm) ==
    IF confirm
    THEN LET r == Save(fs, clk, note)
         IN  IF r.err # "nil"
             THEN [fs |-> r.fs, clk |-> r.clk, status |-> "", err |-> r.err]
             ELSE [fs |-> r.fs, clk |-> r.clk, status |-> "saved", err |-> "nil"]
    ELSE [fs |-> fs, clk |-> clk, status |-> "unsaved", err |-> "nil"]

\* ConfirmUpdate running the duplicate check against the old title
ConfirmUpdate_CheckOld(fs, clk, oldTitle, updatedTitle, updatedContent, confirm) ==
    IF ~confirm
    THEN [fs |-> fs, clk |-> clk, status |-> "not updated", err |-> "nil"]
    ELSE IF /\ ~updatedTitle.isNil
            /\ TrimSpace(updatedTitle.val) # <<>>
            /\ updatedTitle.val # oldTitle
            /\ checkDuplicateName(fs, oldTitle) = "duplicate"
    THEN [fs |-> fs, clk |-> clk, status |-> "duplicate", err |-> "nil"]
    ELSE LET r == Update(fs, clk, oldTitle, updatedTitle, updatedContent)
         IN  IF r.err # "nil"
             THEN [fs |-> r.fs, clk |-> r.clk, status |-> "", err |-> r.err]
             ELSE [fs |-> r.fs, clk |-> r.clk, status |-> "updated", err |-> "nil"]

\* ConfirmUpdate
ConfirmUpdate(fs, clk, oldTitle, updatedTitle, updatedContent, confirm) ==
    IF ~confirm
    THEN [fs |-> fs, clk |-> clk, status |-> "not updated", err |-> "nil"]
    ELSE IF /\ ~updatedTitle.isNil
            /\ TrimSpace(updatedTitle.val) # <<>>
            /\ updatedTitle.val # oldTitle
            /\ checkDuplicateName(fs, updatedTitle.val) = "duplicate"
    THEN [fs |-> fs, clk |-> clk, status |-> "duplicate", err |-> "nil"]
    ELSE LET r == Update(fs, clk, oldTitle, updatedTitle, updatedContent)
         IN  IF r.err # "nil"
             THEN [fs |-> r.fs, clk |-> r.clk, status |-> "", err |-> r.err]
             ELSE [fs |-> r.fs, clk |-> r.clk, status |-> "updated", err |-> "nil"]

\* ConfirmDelete
ConfirmDelete(fs, clk, note, confirm) ==
    IF confirm
    THEN LET r == Delete(fs, note)
         IN  IF r.err # "nil"
             THEN [fs |-> r.fs, clk |-> clk, status |-> "", err |-> r.err]
             ELSE [fs |-> r.fs, clk |-> clk, status |-> "deleted", err |-> "nil"]
    ELSE [fs |-> fs, clk |-> clk, status |-> "not deleted", err |-> "nil"]

\* Store.Save when the operating system may fail os.WriteFile
SaveIO(fs, clk, note, fault) ==
    IF TrimSpace(note.Title) = <<>>
    THEN [fs |-> fs, clk |-> clk, err |-> "empty title"]
    ELSE LET filename == sanitizeFilename(TrimSpace(note.Title)) \o MdExt
             content == TrimRightFunc(note.Content)
         IN  IF fault.fails = "open"
             THEN [fs |-> fs, clk |-> clk, err |-> "write"]
             ELSE IF fault.fails = "write"
             THEN [fs |-> WriteFile(fs, clk + 1, filename, Prefix(content, fault.written)),
                   clk |-> clk + 1, err |-> "write"]
             ELSE [fs |-> WriteFile(fs, clk + 1, filename, content),
                   clk |-> clk + 1, err |-> "nil"]

\* checkDuplicateName when the notes directory may fail to be read
checkDuplicateNameIO(fs, title, fault) ==
    IF fault.fails = "readdir"
    THEN [status |-> "", err |-> "readdir"]
    ELSE [status |-> checkDuplicateName(fs, title), err |-> "nil"]

\* ConfirmSave keeping its cancel status when the check or the save fails
ConfirmSaveIO_StatusOnError(fs, clk, note, confirm, fault) ==
    IF confirm
    THEN LET d == checkDuplicateNameIO(fs, note.Title, fault)
         IN  IF d.err # "nil"
             THEN [fs |-> fs, clk |-> clk, status |-> "not saved", err |-> d.err]
             ELSE IF d.status = "duplicate"
             THEN [fs |-> fs, clk |-> clk, status |-> "note exists", err |-> "nil"]
             ELSE LET r == SaveIO(fs, clk, note, fault)
                  IN  IF r.err # "nil"
                      THEN [fs |-> r.fs, clk |-> r.clk, status |-> "not saved", err |-> r.err]
                      ELSE [fs |-> r.fs, clk |-> r.clk, status |-> "saved", err |-> "nil"]
    ELSE [fs |-> fs, clk |-> clk, status |-> "not saved", err |-> "nil"]

\* ConfirmSave when the operating system may fail a call
ConfirmSaveIO(fs, clk, note, confirm, fault) ==
    IF confirm
    THEN LET d == checkDuplicateNameIO(fs, note.Title, fault)
         IN  IF d.err # "nil"
             THEN [fs |-> fs, clk |-> clk, status |-> "", err |-> d.err]
             ELSE IF d.status = "duplicate"
             THEN [fs |-> fs, clk |-> clk, status |-> "note exists", err |-> "nil"]
             ELSE LET r == SaveIO(fs, clk, note, fault)
                  IN  IF r.err # "nil"
                      THEN [fs |-> r.fs, clk |-> r.clk, status |-> "", err |-> r.err]
                      ELSE [fs |-> r.fs, clk |-> r.clk, status |-> "saved", err |-> "nil"]
    ELSE [fs |-> fs, clk |-> clk, status |-> "not saved", err |-> "nil"]

----------------------------------------------------------------------------
\* Terminal interface

\* The longest edit buffer a behaviour may hold.
MaxBuffer == 2

\* tea.KeyMsg.String() of the keys pressed
Keys == {"q", "ctrl+c", "k", "up", "j", "down", "enter", "l", "esc", "e"}

\* textarea.New(): empty and not focused
TextareaNew == [focus |-> FALSE, value |-> <<>>]

\* what a key types into a focused textarea
KeyRunes(key) ==
    IF key \in {"q", "k", "j", "l", "e"} THEN <<key>>
    ELSE IF key = "enter" THEN <<"\n">>
    ELSE <<>>

\* textarea.Model.Update of a key: ignored unless focused; a typed character is
\* inserted at the cursor, which the model does not track: at position pos
TextareaUpdate(ta, key, pos) ==
    IF ~ta.focus \/ KeyRunes(key) = <<>> THEN ta
    ELSE [ta EXCEPT !.value = SubSeq(ta.value, 1, pos) \o KeyRunes(key)
                                 \o SubSeq(ta.value, pos + 1, Len(ta.value))]

\* textarea.Model.SetValue followed by textarea.Model.Focus
SetValueAndFocus(ta, value) == [focus |-> TRUE, value |-> value]

\* NewModel
NewModel(fs) ==
    [run |-> "running", state |-> "listView", notes |-> GetNotes(fs),
     currNote |-> NoNote, statusMsg |-> <<>>, listIndex |-> 0,
     textarea |-> TextareaNew, width |-> 0, height |-> 0]

\* LoadToMem; ioFails: the file cannot be read
LoadToMem(fs, title, ioFails) ==
    IF ioFails THEN [err |-> "read", note |-> NoNote] ELSE Load(fs, title)

\* model.Update, enter or l in the list view; indexing an empty m.notes panics
OpenSelected(m, fs, ioFails) ==
    IF m.listIndex \notin 0..(Len(m.notes) - 1)
    THEN [m EXCEPT !.run = "panic"]
    ELSE LET l == LoadToMem(fs, m.notes[m.listIndex + 1].Title, ioFails)
         IN  IF l.err # "nil"
             THEN [m EXCEPT !.statusMsg = <<"Error loading note: ", l.err>>]
             ELSE [m EXCEPT !.currNote = l.note,
                            !.textarea = SetValueAndFocus(m.textarea, l.note.Content),
                            !.state = "editorView"]

\* model.Update of a tea.KeyMsg
ModelUpdate(model, fs, key, pos, ioFails) ==
    LET m == [model EXCEPT !.textarea = TextareaUpdate(model.textarea, key, pos)]
    IN  CASE m.state = "editorView" ->
               IF key = "ctrl+c" THEN [m EXCEPT !.run = "quit"]
               ELSE IF key = "esc" THEN [m EXCEPT !.state = "listView"]
               ELSE m
          [] m.state = "listView" ->
               IF key \in {"q", "ctrl+c"} THEN [m EXCEPT !.run = "quit"]
               ELSE IF key \in {"k", "up"}
               THEN IF m.listIndex > 0 THEN [m EXCEPT !.listIndex = @ - 1] ELSE m
               ELSE IF key \in {"j", "down"}
               THEN IF m.listIndex < Len(m.notes) - 1 THEN [m EXCEPT !.listIndex = @ + 1] ELSE m
               ELSE IF key \in {"enter", "l"} THEN OpenSelected(m, fs, ioFails)
               ELSE m
          [] m.state = "previewView" ->
               IF key = "e"
               THEN [m EXCEPT !.textarea = SetValueAndFocus(m.textarea, m.currNote.Content),
                              !.state = "editorView"]
               ELSE m

\* model.View: the indexes at which it reads m.notes[m.listIndex], which it does
\* outside the editor view and only when m.notes is not empty
ViewAccesses(m) ==
    IF m.state # "editorView" /\ Len(m.notes) > 0 THEN {m.listIndex} ELSE {}

----------------------------------------------------------------------------
\* State machine

\* no terminal interface is running
NoModel == [run |-> "none"]

NoCall == [op |-> "none", title |-> <<>>, newTitle |-> Nil, content |-> Nil,
           confirm |-> FALSE]
NoResult == [status |-> "", err |-> "nil"]

Init ==
    /\ files = <<>>
    /\ clock = 0
    /\ pc = "idle"
    /\ call = NoCall
    /\ result = NoResult
    /\ pre = <<>>
    /\ persisted = {}
    /\ saved = {}
    /\ tui = NoModel

\* A call c made in the idle state returns r = [fs, clk, status, err].
Returned(c, r) ==
    /\ pc = "idle"
    /\ r.clk <= MaxClock
    /\ files' = r.fs
    /\ clock' = r.clk
    /\ pc' = "done"
    /\ call' = c
    /\ result' = [status |-> r.status, err |-> r.err]
    /\ pre' = files

SaveCall ==
    \E t \in Titles, c \in Contents :
        LET r == Save(files, clock, [Title |-> t, Content |-> c])
        IN  Returned([op |-> "Save", title |-> t, newTitle |-> Nil,
                      content |-> Some(c), confirm |-> TRUE],
                     [fs |-> r.fs, clk |-> r.clk, status |-> "", err |-> r.err])

DeleteCall ==
    \E t \in Titles :
        LET r == Delete(files, t)
        IN  Returned([op |-> "Delete", title |-> t, newTitle |-> Nil,
                      content |-> Nil, confirm |-> TRUE],
                     [fs |-> r.fs, clk |-> clock, status |-> "", err |-> r.err])

UpdateCall ==
    \E old \in Titles, new \in OptTitles, c \in OptContents :
        LET r == Update(files, clock, old, new, c)
        IN  Returned([op |-> "Update", title |-> old, newTitle |-> new,
                      content |-> c, confirm |-> TRUE],
                     [fs |-> r.fs, clk |-> r.clk, status |-> "", err |-> r.err])

ConfirmSaveCall ==
    \E t \in Titles, c \in Contents, confirm \in BOOLEAN :
        Returned([op |-> "ConfirmSave", title |-> t, newTitle |-> Nil,
                  content |-> Some(c), confirm |-> confirm],
                 ConfirmSave(files, clock, [Title |-> t, Content |-> c], confirm))

ConfirmCloseCall ==
    \E t \in Titles, c \in Contents, confirm \in BOOLEAN :
        Returned([op |-> "ConfirmClose", title |-> t, newTitle |-> Nil,
                  content |-> Some(c), confirm |-> confirm],
                 ConfirmClose(files, clock, [Title |-> t, Content |-> c], confirm))

ConfirmUpdateCall ==
    \E old \in Titles, new \in OptTitles, c \in OptContents, confirm \in BOOLEAN :
        Returned([op |-> "ConfirmUpdate", title |-> old, newTitle |-> new,
                  content |-> c, confirm |-> confirm],
                 ConfirmUpdate(files, clock, old, new, c, confirm))

ConfirmDeleteCall ==
    \E t \in Titles, confirm \in BOOLEAN :
        Returned([op |-> "ConfirmDelete", title |-> t, newTitle |-> Nil,
                  content |-> Nil, confirm |-> confirm],
                 ConfirmDelete(files, clock, t, confirm))

\* The titles of the calls made under failing system calls: blank, plain, and
\* two that resolve to one file
FaultTitles == { <<>>, <<"a">>, <<"b">>, <<"a", "/", "b">>, <<"a", ":", "b">> }

\* Store.Update called while the operating system may fail one of its calls
UpdateFaultCall ==
    \E old \in FaultTitles, new \in {Nil} \cup {Some(t) : t \in FaultTitles},
       c \in OptContents, fault \in Faults :
        LET r == UpdateIO(files, clock, old, new, c, fault)
        IN  Returned([op |-> "Update", title |-> old, newTitle |-> new,
                      content |-> c, confirm |-> TRUE, fault |-> fault],
                     [fs |-> r.fs, clk |-> r.clk, status |-> "", err |-> r.err])

\* the system calls of ConfirmSave that may fail: os.ReadDir and os.WriteFile
ConfirmSaveFaults ==
    { NoFault,
      [fails |-> "readdir", written |-> 0],
      [fails |-> "open", written |-> 0],
      [fails |-> "write", written |-> 0],
      [fails |-> "write", written |-> 1] }

\* ConfirmSave called while the operating system may fail one of its calls
ConfirmSaveFaultCall ==
    \E t \in Titles, c \in Contents, confirm \in BOOLEAN, fault \in ConfirmSaveFaults :
        Returned([op |-> "ConfirmSave", title |-> t, newTitle |-> Nil,
                  content |-> Some(c), confirm |-> confirm, fault |-> fault],
                 ConfirmSaveIO(files, clock, [Title |-> t, Content |-> c], confirm, fault))

\* Titles, contents and queries in mixed case
SearchTitles == { <<"a">>, <<"A", "b">> }
SearchContents == { <<"x">>, <<"a", "X">>, <<"B", "\n", "y">> }
Queries ==
    { <<>>, <<"a">>, <<"A">>, <<"X">>, <<"a", "b">>, <<"A", "X">>, <<"\n">>, <<"z">> }

\* Store.Save of a note in mixed case
SaveMixedCaseCall ==
    \E t \in SearchTitles, c \in SearchContents :
        LET r == Save(files, clock, [Title |-> t, Content |-> c])
        IN  Returned([op |-> "Save", title |-> t, newTitle |-> Nil,
                      content |-> Some(c), confirm |-> TRUE],
                     [fs |-> r.fs, clk |-> r.clk, status |-> "", err |-> r.err])

SearchCall ==
    \E q \in Queries :
        LET r == SearchNotes(files, q)
        IN  /\ pc = "idle"
            /\ pc' = "done"
            /\ call' = [op |-> "SearchNotes", query |-> q]
            /\ result' = [status |-> "", err |-> r.err, notes |-> r.notes]
            /\ pre' = files
            /\ UNCHANGED <<files, clock>>

\* What a name of the notes directory can be: a regular file, a file that cannot
\* be opened, a file whose metadata cannot be read, a subdirectory
RegularFile(content, mtime) ==
    [isDir |-> FALSE, canOpen |-> TRUE, canStat |-> TRUE, content |-> content, mtime |-> mtime]
EntryKinds(content, mtime) ==
    { RegularFile(content, mtime),
      [RegularFile(content, mtime) EXCEPT !.canOpen = FALSE],
      [RegularFile(content, mtime) EXCEPT !.canStat = FALSE],
      [RegularFile(<<>>, mtime) EXCEPT !.isDir = TRUE] }

\* The entries a directory may hold under each name
ListingEntries ==
    [name \in { <<"a", ".", "m", "d">>, <<"b", ".", "m", "d">>,
                <<"c", ".", "t", "x", "t">>, <<"s", "u", "b">> } |->
        CASE name = <<"a", ".", "m", "d">> -> EntryKinds(<<"x">>, 1)
          [] name = <<"b", ".", "m", "d">> -> EntryKinds(<<"y", "\n", "z">>, 2)
          [] name = <<"c", ".", "t", "x", "t">> -> {RegularFile(<<"x">>, 3)}
          [] name = <<"s", "u", "b">> -> {[RegularFile(<<>>, 4) EXCEPT !.isDir = TRUE]}]

\* The directories GetNotes is run on
ListingDirs ==
    UNION { {dir \in [names -> UNION {ListingEntries[n] : n \in names}] :
                \A n \in names : dir[n] \in ListingEntries[n]} :
            names \in SUBSET DOMAIN ListingEntries }

InitListing ==
    /\ files \in ListingDirs
    /\ clock = 0
    /\ pc = "idle"
    /\ call = NoCall
    /\ result = NoResult
    /\ pre = <<>>
    /\ persisted = {}
    /\ saved = {}
    /\ tui = NoModel

GetNotesCall ==
    \E readable \in BOOLEAN :
        LET r == GetNotesIO(files, readable)
        IN  /\ pc = "idle"
            /\ pc' = "done"
            /\ call' = [op |-> "GetNotes", readable |-> readable]
            /\ result' = [status |-> "", err |-> r.err, notes |-> r.notes]
            /\ pre' = files
            /\ UNCHANGED <<files, clock>>

\* The notes directories the terminal interface is started on
TuiStores ==
    LET one == Save(<<>>, 0, [Title |-> <<"a">>, Content |-> <<"x">>])
        two == Save(one.fs, one.clk, [Title |-> <<"a", "/", "b">>, Content |-> <<>>])
    IN  { [fs |-> <<>>, clk |-> 0], [fs |-> one.fs, clk |-> one.clk],
          [fs |-> two.fs, clk |-> two.clk] }

InitTui ==
    /\ \E store \in TuiStores : files = store.fs /\ clock = store.clk
    /\ pc = "idle"
    /\ call = NoCall
    /\ result = NoResult
    /\ pre = <<>>
    /\ persisted = {}
    /\ saved = {}
    /\ tui = NewModel(files)

\* the key is pressed: model.Update of the tea.KeyMsg
KeyPressed(key, pos, ioFails) ==
    /\ tui.run = "running"
    /\ pos \in 0..Len(tui.textarea.value)
    /\ Len(ModelUpdate(tui, files, key, pos, ioFails).textarea.value) <= MaxBuffer
    /\ tui' = ModelUpdate(tui, files, key, pos, ioFails)
    /\ UNCHANGED <<files, clock, pc, call, result, pre, persisted, saved>>

KeyMsg == \E key \in Keys, pos \in 0..MaxBuffer, ioFails \in BOOLEAN : KeyPressed(key, pos, ioFails)

\* model.Update of a tea.WindowSizeMsg
WindowSizeMsg ==
    \E size \in {[Width |-> 80, Height |-> 24]} :
        /\ tui.run = "running"
        /\ tui' = [tui EXCEPT !.width = size.Width, !.height = size.Height]
        /\ UNCHANGED <<files, clock, pc, call, result, pre, persisted, saved>>

SaveOp == SaveCall /\ UNCHANGED <<persisted, saved, tui>>
GetNotesOp == GetNotesCall /\ UNCHANGED <<persisted, saved, tui>>
SaveMixedCaseOp == SaveMixedCaseCall /\ UNCHANGED <<persisted, saved, tui>>
SearchOp == SearchCall /\ UNCHANGED <<persisted, saved, tui>>
ConfirmSaveFaultOp == ConfirmSaveFaultCall /\ UNCHANGED <<persisted, saved, tui>>
UpdateFaultOp == UpdateFaultCall /\ UNCHANGED <<persisted, saved, tui>>
DeleteOp == DeleteCall /\ UNCHANGED <<persisted, saved, tui>>
UpdateOp == UpdateCall /\ UNCHANGED <<persisted, saved, tui>>
ConfirmSaveOp == ConfirmSaveCall /\ UNCHANGED <<persisted, saved, tui>>
ConfirmCloseOp == ConfirmCloseCall /\ UNCHANGED <<persisted, saved, tui>>
ConfirmUpdateOp == ConfirmUpdateCall /\ UNCHANGED <<persisted, saved, tui>>
ConfirmDeleteOp == ConfirmDeleteCall /\ UNCHANGED <<persisted, saved, tui>>

\* The file a title resolves to
NoteFile(title) == sanitizeFilename(TrimSpace(title)) \o MdExt

\* The titles of P that resolve to the file of title
SameFile(P, title) == {u \in P : NoteFile(u) = NoteFile(title)}

\* The raw titles that stay persisted after call c returned r: a successful save
\* under t puts t in the place of the titles that shared its file, a successful
\* delete or rename removes the titles of the files it removed or replaced.
TrackPersisted(P, c, r) ==
    LET savedIt == \/ c.op = "Save" /\ r.err = "nil"
                   \/ c.op \in {"ConfirmSave", "ConfirmClose"} /\ r.status = "saved"
        deletedIt == \/ c.op = "Delete" /\ r.err = "nil"
                     \/ c.op = "ConfirmDelete" /\ r.status = "deleted"
        renamedIt == /\ \/ c.op = "Update" /\ r.err = "nil"
                        \/ c.op = "ConfirmUpdate" /\ r.status = "updated"
                     /\ ~c.newTitle.isNil
                     /\ TrimSpace(c.newTitle.val) # <<>>
                     /\ NoteFile(c.newTitle.val) # NoteFile(c.title)
    IN  IF savedIt THEN (P \ SameFile(P, c.title)) \cup {c.title}
        ELSE IF deletedIt THEN P \ SameFile(P, c.title)
        ELSE IF renamedIt THEN P \ (SameFile(P, c.title) \cup SameFile(P, c.newTitle.val))
        ELSE P

\* The caller takes the result; the next call can be made.
ReturnCall ==
    /\ pc = "done"
    /\ pc' = "idle"
    /\ call' = NoCall
    /\ result' = NoResult
    /\ pre' = <<>>
    /\ UNCHANGED <<files, clock>>

Return == ReturnCall /\ UNCHANGED <<persisted, saved, tui>>

\* Return, recording which raw titles are persisted now
ReturnPersisted ==
    /\ ReturnCall
    /\ persisted' = TrackPersisted(persisted, call, result)
    /\ UNCHANGED <<saved, tui>>

\* Return, recording the title a successful Store.Save saved
ReturnSaved ==
    /\ ReturnCall
    /\ saved' = IF call.op = "Save" /\ result.err = "nil"
                THEN saved \cup {call.title} ELSE saved
    /\ UNCHANGED <<persisted, tui>>

Next ==
    \/ SaveOp
    \/ DeleteOp
    \/ UpdateOp
    \/ ConfirmSaveOp
    \/ ConfirmCloseOp
    \/ ConfirmUpdateOp
    \/ ConfirmDeleteOp
    \/ Return

Spec == Init /\ [][Next]_vars

\* The store with the history of persisted raw titles
NextPersisted ==
    \/ SaveOp
    \/ DeleteOp
    \/ UpdateOp
    \/ ConfirmSaveOp
    \/ ConfirmCloseOp
    \/ ReturnPersisted

SpecPersisted == Init /\ [][NextPersisted]_vars

\* Saves and deletes only, with the history of persisted raw titles
NextSaves ==
    \/ SaveOp
    \/ DeleteOp
    \/ ConfirmSaveOp
    \/ ReturnPersisted

SpecSaves == Init /\ [][NextSaves]_vars

\* Store.Save and Store.Update under failing system calls
NextUpdateFaults == SaveOp \/ UpdateFaultOp \/ Return

SpecUpdateFaults == Init /\ [][NextUpdateFaults]_vars

\* Every operation, ConfirmSave under failing system calls
NextValidation ==
    \/ SaveOp
    \/ DeleteOp
    \/ UpdateOp
    \/ ConfirmSaveFaultOp
    \/ ConfirmCloseOp
    \/ ConfirmUpdateOp
    \/ ConfirmDeleteOp
    \/ Return

SpecValidation == Init /\ [][NextValidation]_vars

\* Searches over a directory of notes in mixed case
NextSearch == SaveMixedCaseOp \/ SearchOp \/ Return

SpecSearch == Init /\ [][NextSearch]_vars

\* Store.GetNotes over directories with entries of every kind
NextListing == GetNotesOp \/ Return

SpecListing == InitListing /\ [][NextListing]_vars

\* The terminal interface over a notes directory
NextTui == KeyMsg \/ WindowSizeMsg

SpecTui == InitTui /\ [][NextTui]_vars

\* Only Store.Save, from the empty directory, with the history of saved titles
NextSaved == SaveOp \/ ReturnSaved

SpecSaved == Init /\ [][NextSaved]_vars

----------------------------------------------------------------------------
\* Properties

Returns(op) == pc = "done" /\ call.op = op

\* r is c with all trailing whitespace removed
IsRightTrimOf(r, c) ==
    /\ Len(r) <= Len(c)
    /\ r = SubSeq(c, 1, Len(r))
    /\ r # <<>> => r[Len(r)] \notin WhiteSpace
    /\ \A i \in (Len(r) + 1)..Len(c) : c[i] \in WhiteSpace

Exists(fs, title) == Load(fs, title).err = "nil"
Missing(fs, title) == Load(fs, title).err = "not exist"

ListedTitles(fs) == {GetNotes(fs)[i].Title : i \in 1..Len(GetNotes(fs))}

\* C1: a successful Save({t, c}) followed by Load(t) succeeds and returns the raw
\* title t and the content c with all trailing whitespace removed.
C1_RoundTrip ==
    (Returns("Save") /\ result.err = "nil") =>
        LET l == Load(files, call.title)
        IN  /\ l.err = "nil"
            /\ l.note.Title = call.title
            /\ IsRightTrimOf(l.note.Content, call.content.val)

C1_Witness ==
    /\ Returns("Save") /\ result.err = "nil"
    /\ call.title = <<"a", "/", "b">>
    /\ call.content.val = <<"x", " ", "\n">>
    /\ pre # <<>>

\* C2: ConfirmSave, confirmed, of a note whose exact title is persisted returns
\* "note exists" without error and leaves the directory as it was.
C2_DuplicateGate ==
    (Returns("ConfirmSave") /\ call.confirm /\ call.title \in persisted) =>
        /\ result.status = "note exists"
        /\ result.err = "nil"
        /\ files = pre

CancelStatus ==
    [ConfirmSave |-> "not saved", ConfirmClose |-> "unsaved",
     ConfirmUpdate |-> "not updated", ConfirmDelete |-> "not deleted"]

\* C3: with confirm = false the four Confirm operations return their cancel
\* status with a nil error and leave every file as it was, whatever the arguments.
C3_ConfirmFalse ==
    (pc = "done" /\ call.op \in DOMAIN CancelStatus /\ ~call.confirm) =>
        /\ result.err = "nil"
        /\ result.status = CancelStatus[call.op]
        /\ files = pre

C3_Witness ==
    /\ Returns("ConfirmClose") /\ ~call.confirm
    /\ call.title = <<"a">>
    /\ Exists(pre, <<"a">>)
    /\ pre[NoteFile(<<"a">>)].content # TrimRightFunc(call.content.val)

\* The case of C4: a confirmed rename-only ConfirmUpdate from an existing note
\* to a title that no file backs
C4_Case ==
    /\ Returns("ConfirmUpdate") /\ call.confirm
    /\ ~call.newTitle.isNil /\ call.newTitle.val # call.title
    /\ call.content.isNil
    /\ Exists(pre, call.title)
    /\ Missing(pre, call.newTitle.val)

C4_Renamed ==
    /\ result.status = "updated"
    /\ Missing(files, call.title)
    /\ Exists(files, call.newTitle.val)
    /\ Load(files, call.newTitle.val).note.Content = Load(pre, call.title).note.Content

\* C4 as claimed: for titles old # new, when a note titled old exists and none
\* titled new, ConfirmUpdate(old, new, nil, true) returns "updated", after which
\* Load(old) is not found and Load(new) returns the content old had.
C4_RenameAnyTitle == C4_Case => C4_Renamed

\* C4, amended: the same for a new title that is not blank.
C4_Rename == (C4_Case /\ TrimSpace(call.newTitle.val) # <<>>) => C4_Renamed

C4_Witness ==
    /\ C4_Case
    /\ call.title = <<" ", "a">>
    /\ call.newTitle.val = <<"a", "/", "b">>
    /\ DOMAIN pre # {NoteFile(call.title)}

\* The case of C5: a confirmed ConfirmUpdate to the title of a listed note
C5_Case ==
    /\ Returns("ConfirmUpdate") /\ call.confirm
    /\ ~call.newTitle.isNil
    /\ TrimSpace(call.newTitle.val) # <<>>
    /\ call.newTitle.val # call.title
    /\ call.newTitle.val \in ListedTitles(pre)

\* C5: a confirmed ConfirmUpdate whose new title is not blank, differs from the
\* old title and equals the title of a listed note returns "duplicate" without
\* error and renames and writes nothing, whatever the new content.
C5_UpdateDuplicate ==
    C5_Case => /\ result.status = "duplicate"
               /\ result.err = "nil"
               /\ files = pre

C5_Witness ==
    /\ C5_Case
    /\ ~call.content.isNil
    /\ Exists(pre, call.title)
    /\ pre[NoteFile(call.title)].content # TrimRightFunc(call.content.val)

\* C6 as claimed: after saving notes under pairwise distinct valid titles into
\* the empty directory, GetNotes returns as many notes as titles were saved and
\* their titles are the saved titles.
C6_ListsSavedTitles ==
    pc = "idle" =>
        /\ Len(GetNotes(files)) = Cardinality(saved)
        /\ ListedTitles(files) = saved

\* C6, amended: GetNotes returns one note for each distinct sanitized trimmed
\* title, and the listed titles are the sanitized trimmed forms of the saved ones.
C6_ListsSanitizedTitles ==
    pc = "idle" =>
        LET names == {sanitizeFilename(TrimSpace(t)) : t \in saved}
        IN  /\ Len(GetNotes(files)) = Cardinality(names)
            /\ ListedTitles(files) = names

C6_Witness ==
    /\ pc = "idle"
    /\ saved = {<<"b">>, <<"a", "/", "b">>}
    /\ Len(GetNotes(files)) = 2

MaxModTime(fs) ==
    CHOOSE t \in {fs[p].mtime : p \in DOMAIN fs} : \A p \in DOMAIN fs : fs[p].mtime <= t

\* An Update that succeeded without a write: rename-only or content-equal
UpdateWithoutWrite ==
    /\ Returns("Update") /\ result.err = "nil"
    /\ \/ call.content.isNil
       \/ /\ Exists(pre, call.title)
          /\ call.newTitle.isNil
          /\ IsRightTrimOf(pre[NoteFile(call.title)].content, call.content.val)

\* C7: GetNotes is in strictly descending order of modification time, the most
\* recently written file first; an Update that only renames, or whose content
\* equals the stored one, gives no note a new modification time.
C7_ListingOrder ==
    LET notes == GetNotes(files)
    IN  /\ \A i \in 1..(Len(notes) - 1) : notes[i].ModTime > notes[i + 1].ModTime
        /\ notes # <<>> => notes[1].ModTime = MaxModTime(files)
        /\ UpdateWithoutWrite =>
             /\ \A p \in DOMAIN files : \E q \in DOMAIN pre : files[p] = pre[q]
             /\ NoteFile(call.title) \in DOMAIN pre =>
                  \A p \in DOMAIN files \ DOMAIN pre :
                      files[p].mtime = pre[NoteFile(call.title)].mtime

C7_Witness ==
    /\ UpdateWithoutWrite
    /\ ~call.newTitle.isNil
    /\ files # pre
    /\ Len(GetNotes(files)) = 2
    /\ GetNotes(files)[2].Title = sanitizeFilename(TrimSpace(call.newTitle.val))

\* C8: Update(old, nil, nil) with a non-blank old title returns success and
\* leaves every file as it was, whether or not a note for old exists.
C8_UpdateNoOp ==
    (/\ Returns("Update")
     /\ TrimSpace(call.title) # <<>>
     /\ call.newTitle.isNil /\ call.content.isNil) =>
        /\ result.err = "nil"
        /\ files = pre

C8_Witness ==
    /\ Returns("Update")
    /\ call.newTitle.isNil /\ call.content.isNil
    /\ TrimSpace(call.title) # <<>>
    /\ Missing(pre, call.title)
    /\ pre # <<>>

\* The case of C9: a content-only Update with the content the file holds
C9_Case ==
    /\ Returns("Update")
    /\ call.newTitle.isNil /\ ~call.content.isNil
    /\ Exists(pre, call.title)
    /\ IsRightTrimOf(pre[NoteFile(call.title)].content, call.content.val)

\* C9: Update(old, nil, c) on an existing note whose stored content is c with
\* the trailing whitespace removed returns success and writes nothing.
C9_ContentSkip ==
    C9_Case => /\ result.err = "nil"
               /\ files = pre

C9_Witness ==
    /\ C9_Case
    /\ call.content.val = <<"x", " ", "\n">>
    /\ call.title = <<"a", ":", "b">>

\* A delete that reached the store
C10_Deletes ==
    \/ Returns("Delete")
    \/ Returns("ConfirmDelete") /\ call.confirm

\* C10: Delete(t) and ConfirmDelete(t, true) of a non-blank title without a file
\* return the not-found error and change nothing; on an existing note they
\* succeed, remove that file only, and a second delete would be not found.
C10_DeleteMissing ==
    /\ (C10_Deletes /\ TrimSpace(call.title) # <<>> /\ Missing(pre, call.title)) =>
          /\ result.err = "not exist"
          /\ result.status = ""
          /\ files = pre
    /\ (C10_Deletes /\ Exists(pre, call.title)) =>
          /\ result.err = "nil"
          /\ Missing(files, call.title)
          /\ DOMAIN files = DOMAIN pre \ {NoteFile(call.title)}
          /\ \A p \in DOMAIN files : files[p] = pre[p]
          /\ Delete(files, call.title).err = "not exist"
          /\ ConfirmDelete(files, clock, call.title, TRUE).err = "not exist"

C10_Witness ==
    /\ Returns("ConfirmDelete") /\ call.confirm
    /\ TrimSpace(call.title) # <<>>
    /\ Missing(pre, call.title)
    /\ pre # <<>>
    /\ result.err = "not exist"

\* The case of C11: a confirmed ConfirmSave under a title t2 while another raw
\* title t1 # t2 that sanitizes to the same file name is persisted
C11_Case ==
    /\ Returns("ConfirmSave") /\ call.confirm
    /\ \E t1 \in persisted :
          t1 # call.title /\ sanitizeFilename(t1) = sanitizeFilename(call.title)

\* the call wrote its content over the file the title resolves to
C11_Overwritten ==
    /\ result.status = "saved"
    /\ result.err = "nil"
    /\ DOMAIN files = DOMAIN pre
    /\ files[NoteFile(call.title)].content = TrimRightFunc(call.content.val)
    /\ files[NoteFile(call.title)].mtime > pre[NoteFile(call.title)].mtime
    /\ \A p \in DOMAIN pre \ {NoteFile(call.title)} : files[p] = pre[p]

\* C11 as claimed: for any two distinct raw titles t1 # t2 that sanitize to the
\* same file name, after t1 has been saved, ConfirmSave({t2, c}, true) is not flagged
\* as a duplicate, returns "saved" and overwrites the file that held t1's content.
C11_AnyCollidingTitle == C11_Case => C11_Overwritten

\* C11, amended: the same for a title t2 that is not its own sanitized trimmed
\* form, the title under which the listing shows the file.
C11_SanitizationGap ==
    (C11_Case /\ call.title # sanitizeFilename(TrimSpace(call.title))) =>
        C11_Overwritten

C11_Witness ==
    /\ C11_Case
    /\ <<"a", "/", "b">> \in persisted
    /\ call.title = <<"a", ":", "b">>
    /\ pre[NoteFile(call.title)].content # TrimRightFunc(call.content.val)
    /\ result.status = "saved"

\* The case of C12: an Update with a non-blank new title and new content whose
\* rename succeeded
C12_Renames ==
    /\ Returns("Update")
    /\ ~call.newTitle.isNil /\ TrimSpace(call.newTitle.val) # <<>>
    /\ ~call.content.isNil
    /\ Exists(pre, call.title)
    /\ call.fault.fails # "rename"

\* the read-back fails, or the write that the differing content requires does
C12_ContentStepFails ==
    \/ call.fault.fails = "read"
    \/ /\ call.fault.fails \in {"open", "write"}
       /\ TrimRightFunc(call.content.val) # pre[NoteFile(call.title)].content

\* renamed, not rolled back, the old content under the new name
C12_RenamedOnly ==
    /\ result.err # "nil"
    /\ NoteFile(call.title) \notin DOMAIN files
    /\ NoteFile(call.newTitle.val) \in DOMAIN files
    /\ files[NoteFile(call.newTitle.val)].content = pre[NoteFile(call.title)].content
    /\ \A p \in DOMAIN files \ {NoteFile(call.newTitle.val)} :
          p \in DOMAIN pre /\ files[p] = pre[p]

\* the rename itself fails: an error, nothing changed
C12_RenameFails ==
    (/\ Returns("Update")
     /\ ~call.newTitle.isNil /\ TrimSpace(call.newTitle.val) # <<>>
     /\ TrimSpace(call.title) # <<>>
     /\ (Missing(pre, call.title) \/ call.fault.fails = "rename")) =>
        /\ result.err # "nil"
        /\ files = pre

\* C12 as claimed: when Update(old, new, content) with a non-blank new title and
\* non-nil content renames and then fails to read back or to write, it returns an
\* error, no file is left under old's name and the file under new's name holds
\* the old content; when the rename itself fails, an error and no change.
C12_PartialFailureAnyTitle ==
    /\ (C12_Renames /\ C12_ContentStepFails) => C12_RenamedOnly
    /\ C12_RenameFails

\* C12, amended: the same when new resolves to another file than old and the
\* failing write fails before it truncates the file.
C12_PartialFailure ==
    /\ (/\ C12_Renames /\ C12_ContentStepFails
        /\ NoteFile(call.newTitle.val) # NoteFile(call.title)
        /\ call.fault.fails # "write") => C12_RenamedOnly
    /\ C12_RenameFails

C12_Witness ==
    /\ C12_Renames /\ C12_ContentStepFails
    /\ call.fault.fails = "open"
    /\ call.title = <<"a", "/", "b">>
    /\ call.newTitle.val = <<"b">>
    /\ <<"b", ".", "m", "d">> \in DOMAIN pre
    /\ result.err = "write"

\* a call whose title (the old title of an update) is empty or whitespace-only
C13_BlankTitle == pc = "done" /\ TrimSpace(call.title) = <<>>

\* Store.Save, Store.Delete and Store.Update reject a blank title
C13_StoreRejects ==
    (C13_BlankTitle /\ call.op \in {"Save", "Delete", "Update"}) =>
        /\ result.err = "empty title"
        /\ files = pre

\* the validation error comes back with the empty status
C13_FailsEmptyStatus ==
    /\ result.err = "empty title"
    /\ result.status = ""
    /\ files = pre

\* ConfirmUpdate stops at the duplicate check
C13_UpdateDuplicate ==
    /\ call.op = "ConfirmUpdate"
    /\ ~call.newTitle.isNil
    /\ TrimSpace(call.newTitle.val) # <<>>
    /\ call.newTitle.val # call.title
    /\ call.newTitle.val \in ListedTitles(pre)

\* ConfirmSave whose duplicate check fails, or whose save is reached and fails
C13_SaveFails ==
    (/\ Returns("ConfirmSave") /\ call.confirm
     /\ \/ call.fault.fails = "readdir"
        \/ /\ call.title \notin ListedTitles(pre)
           /\ \/ TrimSpace(call.title) = <<>>
              \/ call.fault.fails \in {"open", "write"}) =>
        /\ result.err # "nil"
        /\ result.status = ""

\* C13 as claimed: Save, Delete and Update with a blank (old) title return an
\* error and leave the store unchanged; confirmed, ConfirmClose, ConfirmDelete
\* and ConfirmUpdate return that error with an empty status, and ConfirmSave
\* does so whenever the duplicate check or the save fails.
C13_ValidationAlways ==
    /\ C13_StoreRejects
    /\ (/\ C13_BlankTitle /\ call.confirm
        /\ call.op \in {"ConfirmClose", "ConfirmDelete", "ConfirmUpdate"}) =>
          C13_FailsEmptyStatus
    /\ C13_SaveFails

\* C13, amended: the same, except that ConfirmUpdate with a non-blank new title
\* that differs from the old one and is listed returns "duplicate" without error
\* before the old title is validated.
C13_Validation ==
    /\ C13_StoreRejects
    /\ (/\ C13_BlankTitle /\ call.confirm
        /\ call.op \in {"ConfirmClose", "ConfirmDelete", "ConfirmUpdate"}) =>
          IF C13_UpdateDuplicate
          THEN result.status = "duplicate" /\ result.err = "nil" /\ files = pre
          ELSE C13_FailsEmptyStatus
    /\ C13_SaveFails

C13_Witness ==
    /\ Returns("ConfirmUpdate") /\ call.confirm
    /\ call.title = <<" ">>
    /\ call.newTitle = Some(<<"b">>)
    /\ ~call.content.isNil
    /\ ~C13_UpdateDuplicate
    /\ pre # <<>>
    /\ result.err = "empty title"

\* C14: ConfirmClose, confirmed, of a note with a valid title returns "saved" and
\* writes the file of the sanitized name, listed or not, leaving the others, after
\* which Load(title) returns the trimmed new content; not confirmed it returns
\* "unsaved" and writes nothing.
C14_ConfirmClose ==
    /\ (Returns("ConfirmClose") /\ call.confirm /\ TrimSpace(call.title) # <<>>) =>
          /\ result.status = "saved"
          /\ result.err = "nil"
          /\ Load(files, call.title).err = "nil"
          /\ IsRightTrimOf(Load(files, call.title).note.Content, call.content.val)
          /\ \A p \in DOMAIN pre : Load(files, call.title).note.ModTime > pre[p].mtime
          /\ DOMAIN files = DOMAIN pre \cup {NoteFile(call.title)}
          /\ \A p \in DOMAIN pre \ {NoteFile(call.title)} : files[p] = pre[p]
    /\ (Returns("ConfirmClose") /\ ~call.confirm) =>
          /\ result.status = "unsaved"
          /\ result.err = "nil"
          /\ files = pre

C14_Witness ==
    /\ Returns("ConfirmClose") /\ call.confirm
    /\ call.title = <<"a", "_", "b">>
    /\ call.title \in ListedTitles(pre)
    /\ call.content.val = <<"x", " ", "\n">>
    /\ pre[NoteFile(call.title)].content = <<>>
    /\ files[NoteFile(call.title)].content = <<"x">>

\* C16: in every reachable state of the directory the content of every note file
\* is empty or ends in a character that is not whitespace, and so equals its own
\* trailing-whitespace-trimmed form.
C16_NoTrailingWhitespace ==
    \A p \in DOMAIN files :
        LET c == files[p].content
        IN  /\ c # <<>> => c[Len(c)] \notin WhiteSpace
            /\ c = TrimRightFunc(c)

C16_Witness ==
    /\ Returns("Update") /\ result.err = "nil"
    /\ ~call.newTitle.isNil
    /\ call.content = Some(<<"x", " ", "\n">>)
    /\ Exists(pre, call.title)
    /\ pre[NoteFile(call.title)].content = <<>>
    /\ files # pre

\* the characters C18 names
C18_Replaced == {"<", ">", ":", "\"", "/", "\\", "|", "?", "*"}

\* sanitizeFilename on t: same length, the named characters become "_", every
\* other character stays, and a second application changes nothing
C18_Sanitizes(t) ==
    LET name == sanitizeFilename(t)
    IN  /\ Len(name) = Len(t)
        /\ \A i \in 1..Len(t) :
              name[i] = IF t[i] \in C18_Replaced THEN "_" ELSE t[i]
        /\ sanitizeFilename(name) = name

\* the files of fs that g does not hold as they are
C18_Touched(fs, g) == {p \in DOMAIN fs : p \notin DOMAIN g \/ g[p] # fs[p]}

\* C18: sanitizeFilename replaces each of < > : " / \ | ? * by _ and nothing
\* else, keeps the length and is idempotent; the file a successful Save(t) wrote
\* is sanitize(trim(t)).md, and it is the file Load(t) reads, Delete(t) removes
\* and Update(t, ..) rewrites.
C18_FilenameResolution ==
    /\ \A c \in C18_Replaced \cup {"a", "_", " ", "."} : C18_Sanitizes(<<"a", c, c, "b">>)
    /\ pc = "done" => C18_Sanitizes(call.title)
    /\ (Returns("Save") /\ result.err = "nil") =>
          LET written == {p \in DOMAIN files : files[p].mtime = clock}
              t == call.title
              d == Delete(files, t)
              u == Update(files, clock, t, Nil, Some(<<"y">>))
          IN  /\ written = {sanitizeFilename(TrimSpace(t)) \o <<".", "m", "d">>}
              /\ t = <<"a", "/", "b">> => written = {<<"a", "_", "b", ".", "m", "d">>}
              /\ Load(files, t).err = "nil"
              /\ Load(files, t).note.ModTime = clock
              /\ d.err = "nil"
              /\ C18_Touched(files, d.fs) = written /\ DOMAIN d.fs = DOMAIN files \ written
              /\ u.err = "nil"
              /\ C18_Touched(files, u.fs) = written /\ DOMAIN u.fs = DOMAIN files
              /\ \A p \in written : u.fs[p].content = <<"y">>

C18_Witness ==
    /\ Returns("Save") /\ result.err = "nil"
    /\ call.title = <<"a", "/", "b">>
    /\ <<"b", ".", "m", "d">> \in DOMAIN pre
    /\ <<"a", "_", "b", ".", "m", "d">> \in DOMAIN files

\* letters that differ in case only
C15_CasePairs == {{"a", "A"}, {"b", "B"}, {"x", "X"}, {"y", "Y"}}

\* s contains q as a substring when case is ignored
C15_ContainsIgnoringCase(s, q) ==
    \E off \in 0..(Len(s) - Len(q)) :
        \A j \in 1..Len(q) : s[off + j] = q[j] \/ {s[off + j], q[j]} \in C15_CasePairs

\* C15: SearchNotes(q) returns without error exactly the notes of GetNotes whose
\* title or content contains q ignoring case, in the order of GetNotes; all of
\* them for the empty query, none when nothing matches; the directory is as it was.
C15_Search ==
    Returns("SearchNotes") =>
        LET all == GetNotes(pre)
            q == call.query
            found == result.notes
            matching == {i \in 1..Len(all) :
                            \/ C15_ContainsIgnoringCase(all[i].Title, q)
                            \/ C15_ContainsIgnoringCase(all[i].Content, q)}
        IN  /\ result.err = "nil"
            /\ Len(found) = Cardinality(matching)
            /\ \E f \in [1..Len(found) -> matching] :
                  /\ \A j, k \in 1..Len(found) : j < k => f[j] < f[k]
                  /\ \A k \in 1..Len(found) : found[k] = all[f[k]]
            /\ q = <<>> => found = all
            /\ matching = {} => found = <<>>
            /\ files = pre

C15_Witness ==
    /\ Returns("SearchNotes")
    /\ call.query = <<"A", "X">>
    /\ Len(GetNotes(pre)) = 2
    /\ Len(result.notes) = 1
    /\ result.notes[1] = GetNotes(pre)[2]

\* the name ends in .md
C17_HasMdExtension(name) ==
    Len(name) >= 3 /\ SubSeq(name, Len(name) - 2, Len(name)) = <<".", "m", "d">>

\* C17: GetNotes returns an error only when the directory cannot be enumerated;
\* otherwise it lists, once each, exactly the entries that are not directories,
\* end in .md, can be opened and have readable metadata: no subdirectory, no
\* other extension, and an unreadable file hides no other.
C17_BestEffortListing ==
    Returns("GetNotes") =>
        LET notes == result.notes
            listable == {name \in DOMAIN pre :
                            /\ ~pre[name].isDir
                            /\ C17_HasMdExtension(name)
                            /\ pre[name].canOpen
                            /\ pre[name].canStat}
        IN  /\ result.err # "nil" => ~call.readable
            /\ call.readable =>
                 /\ result.err = "nil"
                 /\ {notes[i].Title \o <<".", "m", "d">> : i \in 1..Len(notes)} = listable
                 /\ Len(notes) = Cardinality(listable)
                 /\ \A i \in 1..Len(notes) :
                       notes[i].ModTime = pre[notes[i].Title \o <<".", "m", "d">>].mtime
            /\ files = pre

C17_Witness ==
    /\ Returns("GetNotes") /\ call.readable
    /\ DOMAIN pre = DOMAIN ListingEntries
    /\ ~pre[<<"a", ".", "m", "d">>].canOpen
    /\ Len(result.notes) = 1
    /\ result.notes[1].Title = <<"b">>

\* what C19 says of one key pressed
C19_Transition(key, ioFails) ==
    /\ (tui.state = "listView" /\ key \in {"enter", "l"} /\ tui.notes # <<>>) =>
          LET l == Load(files, tui.notes[tui.listIndex + 1].Title)
              loaded == ~ioFails /\ l.err = "nil"
          IN  /\ tui'.state = "editorView" <=> loaded
              /\ loaded => /\ tui'.currNote = l.note
                           /\ tui'.textarea.value = l.note.Content
              /\ ~loaded => /\ tui'.state = "listView"
                            /\ tui'.statusMsg # <<>>
                            /\ tui'.statusMsg[1] = "Error loading note: "
    /\ (tui.state = "editorView" /\ key = "esc") => tui'.state = "listView"
    /\ (tui.state = "listView" /\ key \in {"j", "k", "up", "down"}) =>
          tui' = [tui EXCEPT !.listIndex = tui'.listIndex]
    /\ tui'.run = "quit" =>
          \/ tui.state = "listView" /\ key \in {"q", "ctrl+c"}
          \/ tui.state = "editorView" /\ key = "ctrl+c"

C19_Step ==
    \A key \in Keys, pos \in 0..MaxBuffer, ioFails \in BOOLEAN :
        KeyPressed(key, pos, ioFails) => C19_Transition(key, ioFails)

\* C19: the model starts in the list view; there enter or l on the selected note
\* leads to the editor view exactly when the note loads, with currNote the loaded
\* note and the edit buffer its content, and otherwise stays with the error in
\* statusMsg; esc leaves the editor view for the list view; j, k, up and down
\* change only listIndex; only q and ctrl+c in the list view and ctrl+c in the
\* editor view quit.
C19_ViewTransitions == tui.state = "listView" /\ [][C19_Step]_vars

\* the models one key event leads to from model m
C20_AfterOneKey(m) ==
    IF m.run # "running" THEN {}
    ELSE { after \in { ModelUpdate(m, files, key, pos, ioFails) :
                          key \in Keys, pos \in 0..Len(m.textarea.value),
                          ioFails \in BOOLEAN } :
              Len(after.textarea.value) <= MaxBuffer }

RECURSIVE C20_AfterKeys(_, _)
\* seen, and every model that key events lead to from the models of frontier
C20_AfterKeys(seen, frontier) ==
    IF frontier = {} THEN seen
    ELSE LET next == (UNION {C20_AfterOneKey(m) : m \in frontier}) \ seen
         IN  C20_AfterKeys(seen \cup next, next)

\* C20: some sequence of key events leads from the initial list view to a model
\* in the preview state, from which e leads to the editor view with the edit
\* buffer set to the content of the current note.
C20_PreviewReachable ==
    \E m \in C20_AfterKeys({NewModel(files)}, {NewModel(files)}) :
        /\ m.state = "previewView"
        /\ ModelUpdate(m, files, "e", 0, FALSE).state = "editorView"
        /\ ModelUpdate(m, files, "e", 0, FALSE).textarea.value = m.currNote.Content

\* C21: whenever a confirmed ConfirmUpdate returns "updated", the directory holds
\* as many note files as before the call, and every file other than the one that
\* backed the old title is still there with the content it had, whatever the new
\* title.
C21_NoNoteLost ==
    (Returns("ConfirmUpdate") /\ call.confirm /\ result.status = "updated") =>
        /\ Cardinality(DOMAIN files) = Cardinality(DOMAIN pre)
        /\ \A p \in DOMAIN pre \ {NoteFile(call.title)} :
              p \in DOMAIN files /\ files[p].content = pre[p].content

\* C22: in every state of the terminal interface listIndex is at least 0 and at
\* most max(0, len(notes) - 1), model.Update never indexes notes out of bounds
\* (which panics), and the index model.View reads is within notes.
C22_SelectionInBounds ==
    /\ 0 <= tui.listIndex
    /\ tui.listIndex <= (IF Len(tui.notes) > 1 THEN Len(tui.notes) - 1 ELSE 0)
    /\ tui.run # "panic"
    /\ \A i \in ViewAccesses(tui) : i \in 0..(Len(tui.notes) - 1)

\* C23: a Store.Update with a new title or a new content that returns success
\* found a file backing the old title; without such a file it returns an error
\* and changes nothing.
C23_UpdateNeedsNote ==
    (Returns("Update") /\ (~call.newTitle.isNil \/ ~call.content.isNil)) =>
        /\ result.err = "nil" => Exists(pre, call.title)
        /\ ~Exists(pre, call.title) => result.err # "nil" /\ files = pre
====
